---- MODULE Spec2Model ----
(***************************************************************************)
(* A model of the greenlight API's admission and lifecycle layer:          *)
(*   - serve() and its signal goroutine (cmd/api/server.go), main()'s      *)
(*     handling of serve()'s error (cmd/api/main.go);                      *)
(*   - runBackground() and the WaitGroup (cmd/api/helpers.go), with        *)
(*     registerUserHandler as the handler that spawns background work;     *)
(*   - the rateLimit middleware and its cleanup goroutine                  *)
(*     (cmd/api/middleware.go);                                            *)
(*   - updateMovieHandler and MovieModel.Get/Update/Delete/Insert          *)
(*     (cmd/api/movies.go, internal/data/movies.go).                       *)
(*   - UserModel.Insert/Update (internal/data/users.go).                   *)
(* The specifications share the variables: Spec and SpecLive (the server   *)
(* lifecycle, the latter with fairness), SpecLimiter and SpecLimiterSlow   *)
(* (the rate limiter), SpecMovies (updateMovieHandler), SpecUpdate and     *)
(* SpecUsers (the data layer's Update methods called on their own).        *)
(***************************************************************************)
EXTENDS Integers, Sequences, FiniteSets, TLC

(***************************************************************************)
(* Bounds of the model.                                                    *)
(***************************************************************************)
\* number of HTTP requests (connections) the lifecycle model accepts
MaxRequests == 2
\* number of connections under the fair specification SpecLive
MaxLiveRequests == 1

\* number of requests that go through the rateLimit middleware
MaxLimReqs == 4
\* number of times the clock advances in the rate-limiter model
MaxAdvances == 1
\* largest limiter burst (bucket capacity) a configuration is drawn from
MaxBurst == 2

\* number of update requests on the movie, and of calls of MovieModel.Update
MaxWriters == 3
\* number of calls of UserModel.Update
MaxUserCalls == 3

Requests == 1..MaxRequests
LiveRequests == 1..MaxLiveRequests
Writers == 1..MaxWriters
LimReqs == 1..MaxLimReqs

VARIABLES
    \* ---- server lifecycle (server.go, main.go, helpers.go, registerUserHandler)
    mainPc,        \* position of the main goroutine in main()/serve()
    serveErr,      \* the error serve() returned to main()
    exitCode,      \* -1 while the process runs, else the exit status
    abandoned,     \* background tasks outstanding when the process exited
    sigPc,         \* position of the signal goroutine of serve()
    quit,          \* number of signals buffered in the quit channel (cap 1)
    listenerOpen,  \* the listener accepts connections
    lnerr,         \* error of closing the listeners inside srv.Shutdown
    shutdownRet,   \* value srv.Shutdown returned
    wg,            \* app.wg counter
    reqPc,         \* per request: position in registerUserHandler
    errVar,        \* per request: the handler's err variable (captured by the closure)
    resp,          \* per request: sequence of status bodies written to the client
    taskPc,        \* per request: position of the goroutine runBackground started
    hLogged,       \* per request: error the handler logged (serverErrorResponse)
    tLogged,       \* per request: error the background task logged (PrintError)
    \* ---- rate limiter (middleware.go)
    limEnabled,    \* app.config.limiter.enabled
    limBurst,      \* app.config.limiter.burst
    limRps2,       \* app.config.limiter.rps, in half tokens per second
    now,           \* the clock (time.Now()), in seconds
    advances,      \* how often the clock advanced
    mu,            \* holder of the mutex mu: 0 free, a request, or the sweeper
    clients,       \* the clients map: per key, the limiter's state and lastSeen
    limPc,         \* per request: position in the middleware
    limKey,        \* per request: host part of r.RemoteAddr ("bad": cannot be split)
    limOut,        \* per request: what the middleware answered or did
    allowAt,       \* per request: the time limiter.Allow() was evaluated at
    seenAt,        \* per request: the time it set its client's lastSeen to
    served,        \* per request: calls of next.ServeHTTP
    swPc,          \* position of the cleanup goroutine
    wakeAt,        \* the time the cleanup goroutine's Sleep ends
    \* ---- movies (internal/data/movies.go, cmd/api/movies.go)
    movie,         \* the row of the movies table with id 1
    wPc,           \* per update request: position in updateMovieHandler
    wSnap,         \* per update request: the movie struct Get filled in
    wInput,        \* per update request: the fields of the request body
    wStatus,       \* per update request: the status of the response
    wNew,          \* per update request: movie.Version after a successful Update
    wLogged,       \* per update request: the error serverErrorResponse logged
    \* ---- calls of the models' Update methods (internal/data)
    cArg,          \* per call of MovieModel.Update: the movie struct passed
    cErr,          \* per call of MovieModel.Update: the error returned
    cNew,          \* per call of MovieModel.Update: movie.Version after the call
    user,          \* the row of the users table with id 1
    uArg,          \* per call of UserModel.Update: the user struct passed
    uErr,          \* per call of UserModel.Update: the error returned
    uNew           \* per call of UserModel.Update: user.Version after the call

lifeVars == <<mainPc, serveErr, exitCode, abandoned, sigPc, quit, listenerOpen,
              lnerr, shutdownRet, wg, reqPc, errVar, resp, taskPc,
              hLogged, tLogged>>

limVars == <<limEnabled, limBurst, limRps2, now, advances, mu, clients, limPc,
             limKey, limOut, allowAt, seenAt, served, swPc, wakeAt>>

movVars == <<movie, wPc, wSnap, wInput, wStatus, wNew, wLogged>>

callVars == <<cArg, cErr, cNew, user, uArg, uErr, uNew>>

vars == <<lifeVars, limVars, movVars, callVars>>

(***************************************************************************)
(* Server lifecycle                                                        *)
(***************************************************************************)

\* The process is running: neither os.Exit nor a return of main() happened.
Alive == exitCode = -1

LifeInit ==
    /\ mainPc = "starting"
    /\ serveErr = "none"
    /\ exitCode = -1
    /\ abandoned = 0
    /\ sigPc = "waitSignal"
    /\ quit = 0
    /\ listenerOpen = FALSE
    /\ lnerr = "nil"
    /\ shutdownRet = "none"
    /\ wg = 0
    /\ reqPc = [r \in Requests |-> "none"]
    /\ errVar = [r \in Requests |-> "nil"]
    /\ resp = [r \in Requests |-> <<>>]
    /\ taskPc = [r \in Requests |-> "none"]
    /\ hLogged = [r \in Requests |-> "none"]
    /\ tLogged = [r \in Requests |-> "none"]


\* ---- main goroutine: main() and serve() ---------------------------------

\* srv.Shutdown has been called: ListenAndServe returns ErrServerClosed.
InShutdown == sigPc # "waitSignal"

\* srv.ListenAndServe() starts: it binds the port and serves, or fails to
\* bind (an error that is not ErrServerClosed, which serve() returns at
\* once), or finds the server already shut down and returns ErrServerClosed,
\* after which serve() receives from shutdownError.
ListenAndServeStart ==
    /\ Alive /\ mainPc = "starting"
    /\ \/ /\ InShutdown
          /\ mainPc' = "recv"
          /\ UNCHANGED <<listenerOpen, serveErr>>
       \/ /\ ~InShutdown
          /\ listenerOpen' = TRUE
          /\ mainPc' = "listening"
          /\ UNCHANGED serveErr
       \/ /\ ~InShutdown
          /\ serveErr' = "bindErr"
          /\ mainPc' = "serveReturned"
          /\ UNCHANGED listenerOpen
    /\ UNCHANGED <<exitCode, abandoned, sigPc, quit, lnerr, shutdownRet, wg, reqPc, errVar,
                   resp, taskPc, hLogged, tLogged, limVars, movVars, callVars>>

\* err = <-shutdownError: the unbuffered channel hands over the value the
\* signal goroutine is sending; serve() returns it (nil or the error).
RecvShutdownError ==
    /\ Alive /\ mainPc = "recv"
    /\ \/ /\ sigPc = "sendErr"
          /\ serveErr' = shutdownRet
          /\ sigPc' = "wgWait"
       \/ /\ sigPc = "sendNil"
          /\ serveErr' = "nil"
          /\ sigPc' = "end"
    /\ mainPc' = "serveReturned"
    /\ UNCHANGED <<exitCode, abandoned, quit, listenerOpen, lnerr, shutdownRet, wg, reqPc,
                   errVar, resp, taskPc, hLogged, tLogged, limVars, movVars, callVars>>

\* The exit status main() ends with: logger.PrintFatal (os.Exit(1)) on an
\* error of serve(), a plain return otherwise.
MainExitCode(err) == IF err # "nil" THEN 1 ELSE 0

\* main() after serve() returned: the process exits, which ends every
\* goroutine where it stands; the process's memory is gone. What is kept is
\* the exit status, the error serve() returned, and how many background
\* tasks were still outstanding (abandoned).
MainExit ==
    /\ Alive /\ mainPc = "serveReturned"
    /\ exitCode' = MainExitCode(serveErr)
    /\ abandoned' = wg
    /\ mainPc' = "exited"
    /\ sigPc' = "killed"
    /\ quit' = 0
    /\ listenerOpen' = FALSE
    /\ lnerr' = "nil"
    /\ shutdownRet' = "none"
    /\ wg' = 0
    /\ reqPc' = [r \in Requests |-> "none"]
    /\ errVar' = [r \in Requests |-> "nil"]
    /\ resp' = [r \in Requests |-> <<>>]
    /\ taskPc' = [r \in Requests |-> "none"]
    /\ hLogged' = [r \in Requests |-> "none"]
    /\ tLogged' = [r \in Requests |-> "none"]
    /\ UNCHANGED <<serveErr, limVars, movVars, callVars>>

\* ---- signal goroutine of serve() ------------------------------------------

\* A SIGINT/SIGTERM reaches the process: signal.Notify relays it to the
\* quit channel (buffer of 1) without blocking; it is dropped when the
\* buffer is full.
Signal ==
    /\ Alive
    /\ quit' = 1
    /\ UNCHANGED <<mainPc, serveErr, exitCode, abandoned, sigPc, listenerOpen, lnerr,
                   shutdownRet, wg, reqPc, errVar, resp, taskPc, hLogged, tLogged, limVars, movVars, callVars>>

\* A connection is active from its accept to the return of its handler.
ActiveRequests == {r \in Requests : reqPc[r] \notin {"none", "done"}}

\* s := <-quit, then srv.Shutdown(ctx) is called and closes the listeners
\* (their close may report an error, kept for Shutdown's return value):
\* ListenAndServe returns ErrServerClosed and serve() goes on to receive
\* from shutdownError.
SigShutdown ==
    /\ Alive /\ sigPc = "waitSignal" /\ quit = 1
    /\ quit' = 0
    /\ listenerOpen' = FALSE
    /\ \E e \in (IF listenerOpen THEN {"nil", "closeErr"} ELSE {"nil"}) : lnerr' = e
    /\ mainPc' = IF mainPc = "listening" THEN "recv" ELSE mainPc
    /\ sigPc' = "draining"
    /\ UNCHANGED <<serveErr, exitCode, abandoned, shutdownRet, wg, reqPc, errVar,
                   resp, taskPc, hLogged, tLogged, limVars, movVars, callVars>>

\* A goroutine that waits for the next signal after Shutdown returned, always
\* or when Shutdown failed (a loop around the receive from quit).
AfterShutdownRestart(err) == "waitSignal"
AfterShutdownRewait(err) == IF err # "nil" THEN "waitSignal" ELSE "wgWait"

\* Where the signal goroutine goes with the value Shutdown returned:
\* a non-nil error is first sent on shutdownError.
AfterShutdown(err) == IF err # "nil" THEN "sendErr" ELSE "wgWait"

\* srv.Shutdown(ctx) returns the listeners' error (nil when they closed
\* well) once every connection is idle.
ShutdownDrained ==
    /\ Alive /\ sigPc = "draining"
    /\ ActiveRequests = {}
    /\ shutdownRet' = lnerr
    /\ lnerr' = "nil"
    /\ sigPc' = AfterShutdown(lnerr)
    /\ UNCHANGED <<mainPc, serveErr, exitCode, abandoned, quit, listenerOpen, wg, reqPc,
                   errVar, resp, taskPc, hLogged, tLogged, limVars, movVars, callVars>>

\* The 5-second context expires with a connection still active:
\* srv.Shutdown(ctx) returns context.DeadlineExceeded.
ShutdownDeadline ==
    /\ Alive /\ sigPc = "draining"
    /\ ActiveRequests # {}
    /\ shutdownRet' = "deadline"
    /\ lnerr' = "nil"
    /\ sigPc' = AfterShutdown("deadline")
    /\ UNCHANGED <<mainPc, serveErr, exitCode, abandoned, quit, listenerOpen, wg, reqPc,
                   errVar, resp, taskPc, hLogged, tLogged, limVars, movVars, callVars>>

\* A Wait() that does not block: it returns whatever the counter is.
WaitGroupWaitReturnsAtOnce == TRUE

\* app.wg.Wait() returns when the counter is zero.
WaitGroupWaitReturns == wg = 0

\* app.wg.Wait(), after which the goroutine sends nil on shutdownError.
WgWait ==
    /\ Alive /\ sigPc = "wgWait"
    /\ WaitGroupWaitReturns
    /\ sigPc' = "sendNil"
    /\ UNCHANGED <<mainPc, serveErr, exitCode, abandoned, quit, listenerOpen, lnerr,
                   shutdownRet, wg, reqPc, errVar, resp, taskPc, hLogged, tLogged, limVars, movVars, callVars>>

\* ---- requests: registerUserHandler -----------------------------------------

\* The server accepts a connection and starts the handler of its request.
\* Requests are taken in order of their numbers (they are interchangeable).
Accept(r) ==
    /\ Alive /\ listenerOpen /\ reqPc[r] = "none"
    /\ \A q \in Requests : q < r => reqPc[q] # "none"
    /\ reqPc' = [reqPc EXCEPT ![r] = "accepted"]
    /\ UNCHANGED <<mainPc, serveErr, exitCode, abandoned, sigPc, quit, listenerOpen,
                   lnerr, shutdownRet, wg, errVar, resp, taskPc,
                   hLogged, tLogged, limVars, movVars, callVars>>

\* The statuses registerUserHandler answers with before it reaches
\* runBackground: readJSON failed (400), Password.Set failed (500), the
\* validation or the duplicate email failed (422), Insert failed (500).
EarlyOutcomes == {"400", "500", "422"}

\* The counter after app.wg.Add(1) of runBackground.
WaitGroupAdd == wg + 1

\* registerUserHandler up to the return of app.runBackground(fn): an early
\* error response and return; or the user is inserted and runBackground
\* does wg.Add(1) and starts the goroutine, the handler going on at once.
HandlerRunBackground(r) ==
    /\ Alive /\ reqPc[r] = "accepted"
    /\ \/ \E st \in EarlyOutcomes :
            /\ resp' = [resp EXCEPT ![r] = Append(@, st)]
            /\ hLogged' = [hLogged EXCEPT ![r] = IF st = "500" THEN "handlerErr" ELSE @]
            /\ reqPc' = [reqPc EXCEPT ![r] = "done"]
            /\ UNCHANGED <<wg, taskPc>>
       \/ /\ wg' = WaitGroupAdd
          /\ taskPc' = [taskPc EXCEPT ![r] = "spawned"]
          /\ reqPc' = [reqPc EXCEPT ![r] = "spawnReturned"]
          /\ UNCHANGED <<resp, hLogged, limVars, movVars, callVars>>
    /\ UNCHANGED <<mainPc, serveErr, exitCode, abandoned, sigPc, quit, listenerOpen,
                   lnerr, shutdownRet, errVar, tLogged, limVars, movVars, callVars>>

\* err = app.writeJSON(w, http.StatusAccepted, ...): the handler assigns its
\* err variable, the one the closure passed to runBackground assigns too.
HandlerWriteJSON(r) ==
    /\ Alive /\ reqPc[r] = "spawnReturned"
    /\ \E res \in {"nil", "writeErr"} :
         /\ errVar' = [errVar EXCEPT ![r] = res]
         /\ resp' = [resp EXCEPT ![r] = IF res = "nil" THEN Append(@, "202") ELSE @]
    /\ reqPc' = [reqPc EXCEPT ![r] = "check"]
    /\ UNCHANGED <<mainPc, serveErr, exitCode, abandoned, sigPc, quit, listenerOpen,
                   lnerr, shutdownRet, wg, taskPc, hLogged, tLogged, limVars, movVars, callVars>>

\* if err != nil { app.serverErrorResponse(w, r, err) }: the handler reads
\* err, logs it and writes the 500 body when it is not nil, and returns.
HandlerCheckErr(r) ==
    /\ Alive /\ reqPc[r] = "check"
    /\ IF errVar[r] # "nil"
         THEN /\ hLogged' = [hLogged EXCEPT ![r] = errVar[r]]
              /\ resp' = [resp EXCEPT ![r] = Append(@, "500")]
         ELSE UNCHANGED <<hLogged, resp>>
    /\ reqPc' = [reqPc EXCEPT ![r] = "done"]
    /\ UNCHANGED <<mainPc, serveErr, exitCode, abandoned, sigPc, quit, listenerOpen,
                   lnerr, shutdownRet, wg, errVar, taskPc, tLogged, limVars, movVars, callVars>>

\* ---- background tasks: the goroutine of runBackground ----------------------

\* fn(): err = app.mailer.Send(...). Send returns nil or an error, assigned
\* to the handler's err, or panics.
TaskSend(r) ==
    /\ Alive /\ taskPc[r] = "spawned"
    /\ \E out \in {"nil", "sendErr", "panic"} :
         /\ IF out = "panic"
              THEN /\ taskPc' = [taskPc EXCEPT ![r] = "panicking"]
                   /\ UNCHANGED errVar
              ELSE /\ taskPc' = [taskPc EXCEPT ![r] = "sent"]
                   /\ errVar' = [errVar EXCEPT ![r] = out]
    /\ UNCHANGED <<mainPc, serveErr, exitCode, abandoned, sigPc, quit, listenerOpen,
                   lnerr, shutdownRet, wg, reqPc, resp, hLogged, tLogged, limVars, movVars, callVars>>

\* A Done() that is not deferred: a panic in fn skips it.
WaitGroupDoneNotDeferred(r) == IF taskPc[r] = "panicking" THEN wg ELSE wg - 1

\* The counter after the deferred app.wg.Done() of task r.
WaitGroupDone(r) == wg - 1

\* The goroutine from the return of Send to its end:
\* if err != nil { app.logger.PrintError(err, nil) } reads the err the
\* handler shares and logs it; fn returns; the deferred recover() finds no
\* panic; the deferred app.wg.Done() runs.
TaskReturn(r) ==
    /\ Alive /\ taskPc[r] = "sent"
    /\ tLogged' = [tLogged EXCEPT ![r] = IF errVar[r] # "nil" THEN errVar[r] ELSE @]
    /\ wg' = WaitGroupDone(r)
    /\ taskPc' = [taskPc EXCEPT ![r] = "done"]
    /\ UNCHANGED <<mainPc, serveErr, exitCode, abandoned, sigPc, quit, listenerOpen,
                   lnerr, shutdownRet, reqPc, errVar, resp, hLogged, limVars, movVars, callVars>>

\* A goroutine without the deferred recover(): the panic ends the process
\* with exit status 2.
TaskCrash(r) ==
    /\ Alive /\ taskPc[r] = "panicking"
    /\ exitCode' = 2
    /\ abandoned' = wg
    /\ mainPc' = "exited"
    /\ sigPc' = "killed"
    /\ quit' = 0
    /\ listenerOpen' = FALSE
    /\ lnerr' = "nil"
    /\ shutdownRet' = "none"
    /\ wg' = 0
    /\ reqPc' = [q \in Requests |-> "none"]
    /\ errVar' = [q \in Requests |-> "nil"]
    /\ resp' = [q \in Requests |-> <<>>]
    /\ taskPc' = [q \in Requests |-> "none"]
    /\ hLogged' = [q \in Requests |-> "none"]
    /\ tLogged' = [q \in Requests |-> "none"]
    /\ UNCHANGED <<serveErr, limVars, movVars, callVars>>

\* The goroutine after a panic in fn: the deferred recover() catches and
\* logs it, then the deferred app.wg.Done() runs.
TaskRecover(r) ==
    /\ Alive /\ taskPc[r] = "panicking"
    /\ tLogged' = [tLogged EXCEPT ![r] = "panic"]
    /\ wg' = WaitGroupDone(r)
    /\ taskPc' = [taskPc EXCEPT ![r] = "done"]
    /\ UNCHANGED <<mainPc, serveErr, exitCode, abandoned, sigPc, quit, listenerOpen,
                   lnerr, shutdownRet, reqPc, errVar, resp, hLogged, limVars, movVars, callVars>>

(***************************************************************************)
(* Rate limiter: the rateLimit middleware and its cleanup goroutine        *)
(***************************************************************************)

\* host parts of the peer addresses requests come from
Keys == {"a", "b"}

\* the clock advances by one of these numbers of seconds
Durations == {1, 2, 181}

\* time.Sleep(time.Minute) of the cleanup goroutine, in seconds
SleepInterval == 60
\* 3 * time.Minute: the age of lastSeen beyond which a client is deleted
EvictAfter == 180

\* the mutex holder that stands for the cleanup goroutine
Sweeper == -1

\* tokens are counted in halves, so that a rate of 0.5/s is exact
TokenUnit == 2

\* refill rates a configuration is drawn from: 0.5 and 1 requests/second
RpsChoices == {1, 2}

\* no entry in the clients map
NoClient == [present |-> FALSE, tokens2 |-> 0, last |-> 0, lastSeen |-> 0]

\* The state after construction: the configuration is read from the flags,
\* the map is empty, the cleanup goroutine starts its first sleep.
LimInitWith(enabled, burst, rps2) ==
    /\ limEnabled = enabled
    /\ limBurst = burst
    /\ limRps2 = rps2
    /\ now = 0
    /\ advances = 0
    /\ mu = 0
    /\ clients = [k \in Keys |-> NoClient]
    /\ limPc = <<>>
    /\ limKey = <<>>
    /\ limOut = <<>>
    /\ allowAt = <<>>
    /\ seenAt = <<>>
    /\ served = <<>>
    /\ swPc = "sleeping"
    /\ wakeAt = SleepInterval

\* the flags' defaults: limiter-enabled true, limiter-burst 4, limiter-rps 2
LimInitDefault == LimInitWith(TRUE, 4, 4)

\* time passes
Tick ==
    /\ advances < MaxAdvances
    /\ \E d \in Durations : now' = now + d
    /\ advances' = advances + 1
    /\ UNCHANGED <<limEnabled, limBurst, limRps2, mu, clients, limPc, limKey, limOut,
                   allowAt, seenAt, served, swPc, wakeAt, lifeVars, movVars, callVars>>

\* mu.Lock() succeeds when nobody holds the mutex
MuFreeAlways == TRUE
MuFree == mu = 0

\* rate.NewLimiter(rate.Limit(rps), burst): a full bucket
NewLimiter(t) == [present |-> TRUE, tokens2 |-> TokenUnit * limBurst, last |-> t, lastSeen |-> 0]

Min(a, b) == IF a < b THEN a ELSE b

\* the tokens (in halves) of client c at time t: what it held at its last
\* update plus the refill since, and never more than the burst
TokensAtUncapped(c, t) == c.tokens2 + (t - c.last) * limRps2
TokensAt(c, t) == Min(TokenUnit * limBurst, c.tokens2 + (t - c.last) * limRps2)

\* limiter.Allow(): one whole token is there to take
LimiterAllows(c, t) == TokensAt(c, t) >= TokenUnit

\* the limiter after an admitted Allow(); a denied one leaves it as it was
AfterAllow(c, t) == [c EXCEPT !.tokens2 = TokensAt(c, t) - TokenUnit, !.last = t]

\* _, found := clients[ip]
ClientFoundNever(k) == FALSE
ClientFound(k) == clients[k].present

\* the requests that have entered the middleware
Entered == DOMAIN limPc

\* SplitHostPort failed: app.serverErrorResponse(w, r, err)
KeyErrorAsRateLimited == "429"
KeyErrorResponse == "500"

\* the calls of next.ServeHTTP that follow limiter.Allow(): the denied
\* request returns after rateLimitExceededResponse
ServesAlways(allowed) == 1
ServesAfter(allowed) == IF allowed THEN 1 ELSE 0

\* A request enters the middleware and is numbered in the order of entry; one
\* that has to take the mutex enters when it gets it, and looks its client up.
\* A middleware that checks whatever the flag says.
CheckEnabledAlways == TRUE

\* if app.config.limiter.enabled
CheckEnabled == limEnabled

\* A middleware with  defer mu.Unlock(): an admitted request keeps the
\* mutex while the next handler runs.
UnlockDeferred(q, allowed) == IF allowed THEN q ELSE 0

\* The holder of mu when the middleware answers or calls the next handler:
\* mu.Unlock() comes before rateLimitExceededResponse and before
\* next.ServeHTTP.
UnlockBeforeNext(q, allowed) == 0

LimEnter ==
    /\ Len(limPc) < MaxLimReqs
    /\ \E addr \in Keys \cup {"bad"} :
        /\ limKey' = Append(limKey, addr)
        /\ IF ~CheckEnabled
           THEN /\ limPc' = Append(limPc, "serving")
                /\ limOut' = Append(limOut, "next")
                /\ served' = Append(served, 1)
                /\ UNCHANGED mu
           ELSE IF addr = "bad"
           THEN /\ limPc' = Append(limPc, "done")
                /\ limOut' = Append(limOut, KeyErrorResponse)
                /\ served' = Append(served, 0)
                /\ UNCHANGED mu
           ELSE /\ MuFree
                /\ mu' = Len(limPc) + 1
                /\ limPc' = Append(limPc, IF ClientFound(addr) THEN "found" ELSE "notFound")
                /\ limOut' = Append(limOut, "none")
                /\ served' = Append(served, 0)
    /\ allowAt' = Append(allowAt, -1)
    /\ seenAt' = Append(seenAt, -1)
    /\ UNCHANGED <<limEnabled, limBurst, limRps2, now, advances, clients,
                   swPc, wakeAt, lifeVars, movVars, callVars>>

\* if !found { clients[ip] = &client{limiter: rate.NewLimiter(...)} }
\* clients[ip].lastSeen = time.Now()
LimTouch(q) ==
    /\ q \in Entered
    /\ limPc[q] \in {"found", "notFound"}
    /\ LET k == limKey[q]
           c == IF limPc[q] = "notFound" THEN NewLimiter(now) ELSE clients[k]
       IN  clients' = [clients EXCEPT ![k] = [c EXCEPT !.lastSeen = now]]
    /\ seenAt' = [seenAt EXCEPT ![q] = now]
    /\ limPc' = [limPc EXCEPT ![q] = "touched"]
    /\ UNCHANGED <<limEnabled, limBurst, limRps2, now, advances, mu, limKey,
                   limOut, allowAt, served, swPc, wakeAt, lifeVars, movVars, callVars>>

\* clients[ip].limiter.Allow(), mu.Unlock(), and then either
\* rateLimitExceededResponse or next.ServeHTTP.  The middleware does nothing
\* after next.ServeHTTP, which may take any time: "serving" is where it stays.
LimAllow(q) ==
    /\ q \in Entered
    /\ limPc[q] = "touched"
    /\ allowAt' = [allowAt EXCEPT ![q] = now]
    /\ mu' = UnlockBeforeNext(q, LimiterAllows(clients[limKey[q]], now))
    /\ served' = [served EXCEPT ![q] = @ + ServesAfter(LimiterAllows(clients[limKey[q]], now))]
    /\ LET k == limKey[q]
           c == clients[k]
       IN  IF LimiterAllows(c, now)
           THEN /\ clients' = [clients EXCEPT ![k] = AfterAllow(c, now)]
                /\ limPc' = [limPc EXCEPT ![q] = "serving"]
                /\ limOut' = [limOut EXCEPT ![q] = "next"]
           ELSE /\ limPc' = [limPc EXCEPT ![q] = "done"]
                /\ limOut' = [limOut EXCEPT ![q] = "429"]
                /\ UNCHANGED clients
    /\ UNCHANGED <<limEnabled, limBurst, limRps2, now, advances, limKey, seenAt,
                   swPc, wakeAt, lifeVars, movVars, callVars>>

\* the cleanup goroutine: its sleep is over and it takes the mutex
SweepLock ==
    /\ swPc = "sleeping"
    /\ now >= wakeAt
    /\ MuFree
    /\ mu' = Sweeper
    /\ swPc' = "locked"
    /\ UNCHANGED <<limEnabled, limBurst, limRps2, now, advances, clients, limPc, limKey,
                   limOut, allowAt, seenAt, served, wakeAt, lifeVars, movVars, callVars>>

\* time.Since(client.lastSeen) > 3 * time.Minute
StaleAlways(c) == c.present
Stale(c) == c.present /\ now - c.lastSeen > EvictAfter

\* the cleanup goroutine deletes the stale clients, unlocks and sleeps again
SweepRun ==
    /\ swPc = "locked"
    /\ clients' = [k \in Keys |-> IF Stale(clients[k]) THEN NoClient ELSE clients[k]]
    /\ mu' = 0
    /\ swPc' = "sleeping"
    /\ wakeAt' = now + SleepInterval
    /\ UNCHANGED <<limEnabled, limBurst, limRps2, now, advances, limPc, limKey,
                   limOut, allowAt, seenAt, served, lifeVars, movVars, callVars>>

(***************************************************************************)
(* Movies: MovieModel and updateMovieHandler                               *)
(***************************************************************************)

\* version integer NOT NULL DEFAULT 1
InitialVersion == 1

\* ValidateMovie: movie.Year >= 1888
FirstFilmYear == 1888

\* no row with id 1: not inserted yet, or deleted
NoMovie(st) == [state |-> st, version |-> 0, title |-> "", year |-> 0]

\* the movie struct before Get has filled it in
NoSnap == [version |-> 0, title |-> "", year |-> 0]

\* the request body's optional fields: absent (or null), or a value
NoInput == [hasTitle |-> FALSE, title |-> "", hasYear |-> FALSE, year |-> 0]
Inputs == {[hasTitle |-> t[1], title |-> t[2], hasYear |-> y[1], year |-> y[2]] :
              t \in {<<FALSE, "">>, <<TRUE, "t1">>, <<TRUE, "">>},
              y \in {<<FALSE, 0>>, <<TRUE, 2000>>}}

\* no row with id 1 in the users table
NoUser == [state |-> "absent", version |-> 0, name |-> ""]

MovInit ==
    /\ movie = NoMovie("absent")
    /\ wPc = <<>>
    /\ wSnap = <<>>
    /\ wInput = <<>>
    /\ wStatus = <<>>
    /\ wNew = <<>>
    /\ wLogged = <<>>
    /\ cArg = <<>>
    /\ cErr = <<>>
    /\ cNew = <<>>
    /\ user = NoUser
    /\ uArg = <<>>
    /\ uErr = <<>>
    /\ uNew = <<>>

\* createMovieHandler and MovieModel.Insert: the row gets id 1 and the
\* default version
MovieInsert ==
    /\ movie.state = "absent"
    /\ movie' = [state |-> "present", version |-> InitialVersion, title |-> "t0", year |-> 1999]
    /\ UNCHANGED <<wPc, wSnap, wInput, wStatus, wNew, wLogged, lifeVars, limVars, callVars>>

\* deleteMovieHandler and MovieModel.Delete
MovieDelete ==
    /\ movie.state = "present"
    /\ movie' = NoMovie("deleted")
    /\ UNCHANGED <<wPc, wSnap, wInput, wStatus, wNew, wLogged, lifeVars, limVars, callVars>>

\* Get's query: SELECT id, created_at, title, year, runtime, genres, version
SelectColumns == 7

\* Get's Scan(&[]byte{}, &movie.ID, &movie.CreatedAt, &movie.Title,
\* &movie.Year, &movie.Runtime, pq.Array(&movie.Genres), &movie.Version)
ScanDestinations == 8

\* QueryRowContext(...).Scan(dest...) of database/sql: sql.ErrNoRows when the
\* query found no row; with a row, the error "sql: expected 7 destination
\* arguments in Scan, not 8" unless there are as many destinations as
\* columns.
RowScan(found) ==
    IF ~found THEN "ErrNoRows"
    ELSE IF ScanDestinations # SelectColumns THEN "scanErr"
    ELSE "nil"

\* MovieModel.Get: ErrRecordNotFound for id < 1 and for sql.ErrNoRows, any
\* other error of Scan as it is, else the movie struct Scan filled in
Get(id) ==
    IF id < 1
    THEN [err |-> "ErrRecordNotFound", movie |-> NoSnap]
    ELSE LET e == RowScan(id = 1 /\ movie.state = "present")
         IN  IF e = "ErrNoRows" THEN [err |-> "ErrRecordNotFound", movie |-> NoSnap]
             ELSE IF e # "nil" THEN [err |-> e, movie |-> NoSnap]
             ELSE [err |-> "nil",
                   movie |-> [version |-> movie.version, title |-> movie.title,
                              year |-> movie.year]]

\* the update requests that have arrived
Arrived == DOMAIN wPc

\* updateMovieHandler up to the read: readIDParam (404 for an id below 1),
\* then Get, whose query may also fail in the database: 404 for
\* ErrRecordNotFound, 500 with the error logged for any other error.  The
\* request carries its body.  The requests are numbered in the order they
\* arrive.
HandlerGet ==
    /\ Len(wPc) < MaxWriters
    /\ \E id \in {0, 1, 2}, dbOk \in BOOLEAN, in \in Inputs :
         LET got == IF id >= 1 /\ ~dbOk THEN [err |-> "dbErr", movie |-> NoSnap] ELSE Get(id)
         IN  /\ wInput' = Append(wInput, in)
             /\ IF got.err = "ErrRecordNotFound"
                THEN /\ wStatus' = Append(wStatus, "404")
                     /\ wPc' = Append(wPc, "done")
                     /\ wSnap' = Append(wSnap, NoSnap)
                     /\ wLogged' = Append(wLogged, "none")
                ELSE IF got.err # "nil"
                THEN /\ wStatus' = Append(wStatus, "500")
                     /\ wPc' = Append(wPc, "done")
                     /\ wSnap' = Append(wSnap, NoSnap)
                     /\ wLogged' = Append(wLogged, got.err)
                ELSE /\ wSnap' = Append(wSnap, got.movie)
                     /\ wPc' = Append(wPc, "read")
                     /\ wStatus' = Append(wStatus, "none")
                     /\ wLogged' = Append(wLogged, "none")
    /\ wNew' = Append(wNew, 0)
    /\ UNCHANGED <<movie, lifeVars, limVars, callVars>>

\* the fields of the input that are not nil replace the ones that were read
Overlay(m, in) ==
    [m EXCEPT !.title = IF in.hasTitle THEN in.title ELSE @,
              !.year = IF in.hasYear THEN in.year ELSE @]

\* data.ValidateMovie, for the fields modelled (the years drawn are past ones)
ValidMovie(m) == m.title # "" /\ m.year # 0 /\ m.year >= FirstFilmYear

\* WHERE id = $5 AND version = $6
MatchesAnyVersion(m) == movie.state = "present"
Matches(m) == movie.state = "present" /\ movie.version = m.version

\* SET ... version = version + 1
KeepVersion(v) == v
SkipVersion(v) == v + 2
NextVersion(v) == v + 1

\* updateMovieHandler from reading the body on: readJSON (400 when it
\* fails), the overlay, ValidateMovie, MovieModel.Update and the response.
\* It follows a Get that returned a movie.
HandlerUpdate(w) ==
    /\ w \in Arrived
    /\ wPc[w] = "read"
    /\ wPc' = [wPc EXCEPT ![w] = "done"]
    /\ \/ /\ wStatus' = [wStatus EXCEPT ![w] = "400"]
          /\ UNCHANGED <<movie, wNew, wLogged>>
       \/ \E dbOk \in BOOLEAN :
            LET m == Overlay(wSnap[w], wInput[w])
            IN  IF ~ValidMovie(m)
                THEN /\ wStatus' = [wStatus EXCEPT ![w] = "422"]
                     /\ UNCHANGED <<movie, wNew, wLogged>>
                ELSE IF ~dbOk
                THEN /\ wStatus' = [wStatus EXCEPT ![w] = "500"]
                     /\ wLogged' = [wLogged EXCEPT ![w] = "dbErr"]
                     /\ UNCHANGED <<movie, wNew>>
                ELSE IF ~Matches(m)
                THEN /\ wStatus' = [wStatus EXCEPT ![w] = "409"]
                     /\ UNCHANGED <<movie, wNew, wLogged>>
                ELSE /\ movie' = [movie EXCEPT !.title = m.title, !.year = m.year,
                                               !.version = NextVersion(@)]
                     /\ wNew' = [wNew EXCEPT ![w] = movie'.version]
                     /\ wStatus' = [wStatus EXCEPT ![w] = "200"]
                     /\ UNCHANGED wLogged
    /\ UNCHANGED <<wSnap, wInput, lifeVars, limVars, callVars>>

(***************************************************************************)
(* The models' Update methods, called with any struct                      *)
(***************************************************************************)

\* the versions a caller's struct may carry
Versions == 1..(MaxWriters + 1)

\* the movie structs passed to MovieModel.Update (ID 1)
MovieArgs == {[version |-> v, title |-> t, year |-> 2000] : v \in Versions, t \in {"t1", "t2"}}

\* MovieModel.Update(movie): one UPDATE ... WHERE id = $5 AND version = $6
\* RETURNING version, scanned into movie.Version; sql.ErrNoRows becomes
\* ErrEditConflict, any other error is returned as it is.
MovieModelUpdate ==
    /\ Len(cArg) < MaxWriters
    /\ \E m \in MovieArgs, dbOk \in BOOLEAN :
         /\ cArg' = Append(cArg, m)
         /\ IF ~dbOk
            THEN /\ cErr' = Append(cErr, "dbErr")
                 /\ cNew' = Append(cNew, m.version)
                 /\ UNCHANGED movie
            ELSE IF ~Matches(m)
            THEN /\ cErr' = Append(cErr, "ErrEditConflict")
                 /\ cNew' = Append(cNew, m.version)
                 /\ UNCHANGED movie
            ELSE /\ movie' = [movie EXCEPT !.title = m.title, !.year = m.year,
                                           !.version = NextVersion(@)]
                 /\ cErr' = Append(cErr, "nil")
                 /\ cNew' = Append(cNew, movie'.version)
    /\ UNCHANGED <<wPc, wSnap, wInput, wStatus, wNew, wLogged, user, uArg, uErr, uNew,
                   lifeVars, limVars>>

\* registerUserHandler and UserModel.Insert: the row gets id 1 and the
\* default version
UserInsert ==
    /\ user.state = "absent"
    /\ user' = [state |-> "present", version |-> InitialVersion, name |-> "n0"]
    /\ UNCHANGED <<movie, wPc, wSnap, wInput, wStatus, wNew, wLogged, cArg, cErr, cNew,
                   uArg, uErr, uNew, lifeVars, limVars>>

\* the user structs passed to UserModel.Update
UserArgs == {[id |-> i, version |-> v, name |-> "n1"] : i \in {1, 2}, v \in {1, 2}}

\* UserModel.Update's query has the placeholders $1 to $6
UpdatePlaceholders == 6

\* and its args slice holds user.Name, user.Email, user.Password.hash,
\* user.Activated, user.Version, user.ID, user.Version
UpdateArgs == 7

\* WHERE id = $5 AND version = $6, where the fifth value of args is
\* user.Version and the sixth user.ID (the row modelled has id 1)
UserMatches(u) == user.state = "present" /\ 1 = u.version /\ user.version = u.id

\* UserModel.Update(user): the driver refuses a statement whose number of
\* values differs from its number of placeholders ("pq: got 7 parameters but
\* the statement requires 6"); an executed statement that finds no row gives
\* ErrEditConflict, one that breaks users_email_key ErrDuplicateEmail, and
\* otherwise the new version is scanned into user.Version.
UserModelUpdate ==
    /\ Len(uArg) < MaxUserCalls
    /\ \E u \in UserArgs, dbOk \in BOOLEAN, dup \in BOOLEAN :
         /\ uArg' = Append(uArg, u)
         /\ IF ~dbOk
            THEN /\ uErr' = Append(uErr, "dbErr")
                 /\ uNew' = Append(uNew, u.version)
                 /\ UNCHANGED user
            ELSE IF UpdateArgs # UpdatePlaceholders
            THEN /\ uErr' = Append(uErr, "paramErr")
                 /\ uNew' = Append(uNew, u.version)
                 /\ UNCHANGED user
            ELSE IF ~UserMatches(u)
            THEN /\ uErr' = Append(uErr, "ErrEditConflict")
                 /\ uNew' = Append(uNew, u.version)
                 /\ UNCHANGED user
            ELSE IF dup
            THEN /\ uErr' = Append(uErr, "ErrDuplicateEmail")
                 /\ uNew' = Append(uNew, u.version)
                 /\ UNCHANGED user
            ELSE /\ user' = [user EXCEPT !.name = u.name, !.version = @ + 1]
                 /\ uErr' = Append(uErr, "nil")
                 /\ uNew' = Append(uNew, user'.version)
    /\ UNCHANGED <<movie, wPc, wSnap, wInput, wStatus, wNew, wLogged, cArg, cErr, cNew,
                   lifeVars, limVars>>

\* The state of the shutdown, as the design names it.
ShutdownState ==
    CASE mainPc \in {"serveReturned", "exited"} -> "Stopped"
      [] sigPc = "waitSignal" -> "Running"
      [] sigPc \in {"draining", "sendErr"} -> "Draining"
      [] sigPc = "wgWait" -> "WaitingBackground"
      [] OTHER -> "Stopped"

Init == LifeInit /\ LimInitDefault /\ MovInit

Next ==
    \/ ListenAndServeStart
    \/ RecvShutdownError
    \/ MainExit
    \/ Signal
    \/ SigShutdown
    \/ ShutdownDrained
    \/ ShutdownDeadline
    \/ WgWait
    \/ \E r \in Requests : Accept(r)
    \/ \E r \in Requests : HandlerRunBackground(r)
    \/ \E r \in Requests : HandlerWriteJSON(r)
    \/ \E r \in Requests : HandlerCheckErr(r)
    \/ \E r \in Requests : TaskSend(r)
    \/ \E r \in Requests : TaskReturn(r)
    \/ \E r \in Requests : TaskRecover(r)

Spec == Init /\ [][Next]_vars

\* The Go scheduler runs every goroutine that can take a step: the main
\* goroutine, the signal goroutine, the handlers and the background tasks;
\* the 5-second context of Shutdown expires. Signals and connections come
\* from outside and need not come.
Fairness ==
    /\ WF_vars(ListenAndServeStart)
    /\ WF_vars(RecvShutdownError)
    /\ WF_vars(MainExit)
    /\ WF_vars(SigShutdown)
    /\ WF_vars(ShutdownDrained)
    /\ WF_vars(ShutdownDeadline)
    /\ WF_vars(WgWait)
    /\ \A r \in LiveRequests :
         /\ WF_vars(HandlerRunBackground(r))
         /\ WF_vars(HandlerWriteJSON(r))
         /\ WF_vars(HandlerCheckErr(r))
         /\ WF_vars(TaskSend(r))
         /\ WF_vars(TaskReturn(r))
         /\ WF_vars(TaskRecover(r))

\* The steps of the program when MaxLiveRequests connections arrive.
LiveNext ==
    \/ ListenAndServeStart
    \/ RecvShutdownError
    \/ MainExit
    \/ Signal
    \/ SigShutdown
    \/ ShutdownDrained
    \/ ShutdownDeadline
    \/ WgWait
    \/ \E r \in LiveRequests : Accept(r)
    \/ \E r \in LiveRequests : HandlerRunBackground(r)
    \/ \E r \in LiveRequests : HandlerWriteJSON(r)
    \/ \E r \in LiveRequests : HandlerCheckErr(r)
    \/ \E r \in LiveRequests : TaskSend(r)
    \/ \E r \in LiveRequests : TaskReturn(r)
    \/ \E r \in LiveRequests : TaskRecover(r)

SpecLive == Init /\ [][LiveNext]_vars /\ Fairness

\* The rate limiter under each configuration of the flags.
LimInit ==
    /\ LifeInit
    /\ MovInit
    /\ \E enabled \in BOOLEAN, burst \in 1..MaxBurst, rps2 \in RpsChoices :
           LimInitWith(enabled, burst, rps2)

LimNext ==
    \/ Tick
    \/ SweepLock
    \/ SweepRun
    \/ LimEnter
    \/ \E q \in LimReqs :
        \/ LimTouch(q)
        \/ LimAllow(q)

SpecLimiter == LimInit /\ [][LimNext]_vars

\* -limiter-rps=0: the flag is a float64 that main() passes on unchecked; a
\* rate.Limiter of limit 0 never refills.
NoRefill == 0

\* The enabled rate limiter with a refill rate of zero.
SlowInit ==
    /\ LifeInit
    /\ MovInit
    /\ \E burst \in 1..MaxBurst : LimInitWith(TRUE, burst, NoRefill)

SpecLimiterSlow == SlowInit /\ [][LimNext]_vars

\* The movies table and the update requests on its row.  HandlerUpdate is
\* not among the steps: it follows a Get that returned a movie, and Get
\* returns none (RowScan), so that no request is ever at "read".
MovNext ==
    \/ MovieInsert
    \/ MovieDelete
    \/ HandlerGet

SpecMovies == Init /\ [][MovNext]_vars

\* The movies table under calls of MovieModel.Update with any movie struct.
UpdateNext ==
    \/ MovieInsert
    \/ MovieDelete
    \/ MovieModelUpdate

SpecUpdate == Init /\ [][UpdateNext]_vars

\* The users table under calls of UserModel.Update with any user struct.
UserNext ==
    \/ UserInsert
    \/ UserModelUpdate

SpecUsers == Init /\ [][UserNext]_vars
(***************************************************************************)
(* Properties of the server lifecycle (specification Spec)                 *)
(***************************************************************************)

\* Background tasks whose goroutine has been started and has not yet run
\* its deferred wg.Done().
OutstandingTasks == {r \in Requests : taskPc[r] \in {"spawned", "sent", "panicking"}}

\* The process has exited.
Exited == exitCode # -1

\* C1: in every execution of shutdown the process exits only after the
\* outstanding background-task counter has reached zero: no task that was
\* already spawned is abandoned at exit.
C1_ExitOnlyAfterTasksDone == Exited => abandoned = 0

\* C4: the outstanding-task counter always equals the number of spawned
\* tasks that have not finished (one increment per runBackground, one
\* decrement per task, after a normal return and after a panic), and it is
\* never negative.
C4_CounterCountsOutstanding ==
    /\ wg = Cardinality(OutstandingTasks)
    /\ wg >= 0

\* C4 witness: one task panicked and was counted down while another task
\* is still outstanding.
C4_Witness ==
    \E r, q \in Requests :
        /\ taskPc[r] = "done" /\ tLogged[r] = "panic"
        /\ taskPc[q] = "sent"
        /\ wg = 1

\* The handler of request r called runBackground and has returned.
SpawnedAndReturned(r) == reqPc[r] = "done" /\ taskPc[r] # "none"

\* C5: the handler that spawns never observes the spawned function's
\* result: after the spawn, registerUserHandler writes the 202 response and
\* takes no error path when writeJSON succeeded, and takes the error path
\* (the 500 response, without a 202) when writeJSON failed, whatever
\* mailer.Send returns and however the two goroutines interleave.
C5_HandlerIgnoresTaskResult ==
    \A r \in Requests :
        SpawnedAndReturned(r) => resp[r] \in {<<"202">>, <<"500">>}

\* C6: Wait() returns only when the counter is zero, so every task spawned
\* before it has completed; and serve() returns nil (a drain that finished
\* within the grace period) only after that: no task is outstanding.
C6_WaitReturnsAtZero ==
    /\ [][(sigPc = "wgWait" /\ sigPc' = "sendNil")
            => (wg = 0 /\ OutstandingTasks = {})]_vars
    /\ [](serveErr = "nil" => (wg = 0 /\ OutstandingTasks = {} /\ abandoned = 0))

\* C6 witness: serve() has returned nil after a shutdown in which a
\* background task was spawned and completed.
C6_Witness ==
    /\ mainPc = "serveReturned" /\ serveErr = "nil" /\ sigPc = "end"
    /\ \E r \in Requests : taskPc[r] = "done"

\* C9: a drain timeout is not fatal: when srv.Shutdown hit its deadline,
\* main() does not take its fatal-error path (exit status 1).
C9_DrainTimeoutNotFatal == serveErr = "deadline" => exitCode # 1
\* ---- the rate limiter

Checked(q) == allowAt[q] # -1
Admitted(q) == limOut[q] = "next"

\* q's check happened at time t: it set lastSeen and called Allow() at t
CheckedAt(q, t) == Checked(q) /\ seenAt[q] = t /\ allowAt[q] = t

\* the requests of key k admitted by a check made at time t
AdmittedAt(k, t) == {q \in Entered : limKey[q] = k /\ CheckedAt(q, t) /\ Admitted(q)}

\* C3: of the checks made for one client key at one instant, by requests
\* that run concurrently, at most as many as the burst are admitted.
C3_AtMostBurstAtOnce ==
    limEnabled =>
        \A q \in Entered : Checked(q) =>
            Cardinality(AdmittedAt(limKey[q], allowAt[q])) <= limBurst

\* four requests of one client checked at the same instant with burst 2:
\* two are admitted and two are not
C3_Witness ==
    /\ limEnabled /\ limBurst = 2
    /\ Len(limPc) = 4
    /\ \A q \in Entered : limKey[q] = "a" /\ CheckedAt(q, 0)
    /\ Cardinality(AdmittedAt("a", 0)) = 2
    /\ Cardinality({q \in Entered : limOut[q] = "429"}) = 2

\* The mutex serialises the checks in the order the requests entered, which is
\* the order of their numbers: the checks of q's key up to q's own, and the
\* last one before q's.
ChecksUpTo(q) == {p \in Entered : p <= q /\ limKey[p] = limKey[q] /\ Checked(p)}
Last(S) == CHOOSE p \in S : \A r \in S : r <= p

\* C10: on a key without a client entry, of the checks made with no time
\* elapsed the first limBurst are admitted and the next is denied; a check
\* made at least 1/rps seconds after the key's previous check is admitted.
C10_BurstThenRefill ==
    limEnabled =>
        \A q \in Entered : Checked(q) =>
            /\ (\A p \in ChecksUpTo(q) : CheckedAt(p, allowAt[q]))
                  => (Admitted(q) <=> Cardinality(ChecksUpTo(q)) <= limBurst)
            /\ (/\ ChecksUpTo(q) # {q}
                /\ (allowAt[q] - allowAt[Last(ChecksUpTo(q) \ {q})]) * limRps2 >= TokenUnit)
                  => Admitted(q)

\* burst 2 and 1 request/second: three immediate checks are answered
\* admitted, admitted, denied, and a fourth one second later is admitted
C10_Witness ==
    /\ limEnabled /\ limBurst = 2 /\ limRps2 = 2
    /\ limKey = <<"a", "a", "a", "a">>
    /\ seenAt = <<0, 0, 0, 1>>
    /\ allowAt = <<0, 0, 0, 1>>
    /\ limOut = <<"next", "next", "429", "next">>

\* ---- the movies: calls of MovieModel.Update (specification SpecUpdate)

\* the calls of Update the database executed with expected version v
UpdatesOf(v) == {c \in DOMAIN cArg : cArg[c].version = v /\ cErr[c] \in {"nil", "ErrEditConflict"}}
Succeeded(v) == {c \in UpdatesOf(v) : cErr[c] = "nil"}

\* the step of a call of MovieModel.Update
UpdateStep == Len(cArg') = Len(cArg) + 1

\* C2: of the Update calls on the row that carry the same expected version,
\* at most one succeeds, and it yields that version plus 1; a call the
\* database executes succeeds when the row is at the version it carries and
\* otherwise returns ErrEditConflict and leaves the row as it was.
C2_OneWinnerPerVersion ==
    /\ [](\A v \in Versions :
            /\ Cardinality(Succeeded(v)) <= 1
            /\ \A c \in Succeeded(v) : cNew[c] = v + 1)
    /\ [][(UpdateStep /\ cErr'[Len(cArg')] # "dbErr") =>
            IF movie.state = "present" /\ movie.version = cArg'[Len(cArg')].version
            THEN cErr'[Len(cArg')] = "nil"
            ELSE cErr'[Len(cArg')] = "ErrEditConflict" /\ movie' = movie]_vars

\* three calls that carried version 1: one succeeded, two got the conflict
C2_Witness ==
    /\ movie.state = "present" /\ movie.version = 2
    /\ Cardinality(UpdatesOf(1)) = 3
    /\ Cardinality(Succeeded(1)) = 1

\* C7: the row is inserted with version 1; each step that changes the
\* stored version is a successful Update whose expected version is the
\* stored one and that adds exactly 1 to it; nothing else changes it while
\* the row exists.
C7_VersionStepsByOne ==
    /\ [](movie.state = "present" => movie.version >= 1)
    /\ [][(movie.state = "absent" /\ movie'.state = "present") => movie'.version = 1]_vars
    /\ [][(UpdateStep /\ cErr'[Len(cArg')] = "nil")
               => /\ movie.state = "present"
                  /\ cArg'[Len(cArg')].version = movie.version
                  /\ movie'.version = movie.version + 1
                  /\ cNew'[Len(cArg')] = movie'.version]_vars
    /\ [][(movie.state = "present" /\ movie'.state = "present" /\ movie'.version # movie.version)
            => (UpdateStep /\ cErr'[Len(cArg')] = "nil")]_vars

\* a stale call got the conflict and two others succeeded one after the other
C7_Witness ==
    /\ movie.state = "present" /\ movie.version = 3
    /\ \E a, b, c \in DOMAIN cArg :
         /\ cErr[a] = "nil" /\ cNew[a] = 2
         /\ cErr[b] = "ErrEditConflict" /\ cArg[b].version = 1
         /\ cErr[c] = "nil" /\ cNew[c] = 3

\* ---- the movies: updateMovieHandler (specification SpecMovies)

\* the step in which an update request arrives and reads
ReadStep == Len(wPc') = Len(wPc) + 1

\* the record existed at w's read and the database answered the read
FoundAtRead(w) == wStatus[w] # "404" /\ wLogged[w] # "dbErr"

\* C8: requests that arrive while the row is at a version read that
\* version (a and b both read version 1); when a's Update succeeds it
\* yields version 2 and b's Update gets the conflict; a further request c
\* of b's that read version 2 and whose Update was executed while the row
\* exists, no other request having updated it from version 2, succeeds and
\* leaves the row at version 3.
C8_ReadUpdateRetry ==
    /\ [][(ReadStep /\ movie.state = "present"
              /\ wStatus'[Len(wPc')] # "404" /\ wLogged'[Len(wPc')] # "dbErr")
            => /\ wPc'[Len(wPc')] = "read"
               /\ wSnap'[Len(wPc')].version = movie.version]_vars
    /\ [](\A a, b \in Arrived :
            (/\ a # b
             /\ wSnap[a].version = 1 /\ wStatus[a] = "200"
             /\ wSnap[b].version = 1 /\ wStatus[b] \in {"200", "409"})
            => /\ wNew[a] = 2
               /\ wStatus[b] = "409"
               /\ \A c \in Arrived \ {a, b} :
                    (/\ wSnap[c].version = 2 /\ wStatus[c] \in {"200", "409"}
                     /\ movie.state = "present")
                    => wStatus[c] = "200" /\ wNew[c] = 3)

\* ---- the rate limiter: buckets, sweep, mutex

\* the tokens (in halves) a full bucket holds
Capacity == TokenUnit * limBurst

\* C11: every bucket's tokens, as stored and as refilled up to the present
\* time, are at least 0 and at most the burst.
C11_TokensWithinBurst ==
    \A k \in Keys : clients[k].present =>
        /\ 0 <= clients[k].tokens2 /\ clients[k].tokens2 <= Capacity
        /\ 0 <= TokensAt(clients[k], now) /\ TokensAt(clients[k], now) <= Capacity

\* a bucket was emptied, and the time since would refill more than it holds
C11_Witness ==
    \E k \in Keys :
        /\ clients[k].present /\ clients[k].tokens2 = 0
        /\ TokensAtUncapped(clients[k], now) > Capacity
        /\ TokensAt(clients[k], now) = Capacity

\* the step in which the cleanup goroutine deletes and unlocks
SweepStep == swPc = "locked" /\ swPc' = "sleeping"

\* C12: right after a sweep no client is left whose lastSeen was more than
\* the eviction window before the sweep, and every client whose lastSeen lay
\* within the window is still there, unchanged.
C12_SweepEvictsStaleOnly ==
    [][SweepStep =>
        \A k \in Keys :
            /\ clients'[k].present => now - clients'[k].lastSeen <= EvictAfter
            /\ (clients[k].present /\ now - clients[k].lastSeen <= EvictAfter)
                  => clients'[k] = clients[k]
            /\ (clients[k].present /\ now - clients[k].lastSeen > EvictAfter)
                  => ~clients'[k].present]_vars

\* a sweep has deleted the client of "a", last seen 181 s before, and kept
\* the client of "b", seen just before the sweep
C12_Witness ==
    /\ swPc = "sleeping" /\ wakeAt = now + SleepInterval /\ now = 181
    /\ ~clients["a"].present
    /\ clients["b"].present /\ clients["b"].lastSeen = 181
    /\ \E q \in Entered : limKey[q] = "a" /\ seenAt[q] = 0

\* the requests between mu.Lock() and mu.Unlock()
InCheck == {q \in Entered : limPc[q] \in {"found", "notFound", "touched"}}

\* C13: the sweep never runs while a request is between its lookup and its
\* Allow(), nor two such requests at once; the client a request found or made
\* is in the map until the request has used it.
C13_SweepExcludesChecks ==
    /\ Cardinality(InCheck) <= 1
    /\ swPc = "locked" => InCheck = {}
    /\ \A q \in InCheck :
          /\ mu = q
          /\ limPc[q] \in {"found", "touched"} => clients[limKey[q]].present

\* a request has looked its client up, the client has since become stale and
\* the cleanup goroutine's sleep is over: the sweep waits for the mutex
C13_Witness ==
    \E q \in InCheck :
        /\ limPc[q] = "found"
        /\ Stale(clients[limKey[q]])
        /\ swPc = "sleeping" /\ now >= wakeAt

\* C14: lastSeen is set only by an admitted check: whenever no check is in
\* progress, a client's lastSeen is the time an admitted request set it to
\* (a denied check leaves it as it was).
C14_DeniedLeavesLastSeen ==
    \A k \in Keys : (clients[k].present /\ InCheck = {}) =>
        \E q \in Entered : limKey[q] = k /\ Admitted(q) /\ seenAt[q] = clients[k].lastSeen

\* the step in which request q calls Allow() and answers
AllowStep(q) == limPc[q] = "touched" /\ limPc'[q] # "touched"

\* C15: with the limiter enabled, the request whose Allow() returned true
\* calls the next handler exactly once, and the one whose Allow() returned
\* false gets the 429 response and never calls it.
C15_HandlerIffAdmitted ==
    /\ [][\A q \in Entered : (limEnabled /\ AllowStep(q)) =>
            IF LimiterAllows(clients[limKey[q]], now)
            THEN served'[q] = 1 /\ limOut'[q] = "next"
            ELSE served'[q] = 0 /\ limOut'[q] = "429"]_vars
    /\ [][\A q \in Entered : limPc[q] \in {"serving", "done"} =>
            served'[q] = served[q] /\ limOut'[q] = limOut[q]]_vars
    /\ [](limEnabled => \A q \in Entered : served[q] = 1 <=> limOut[q] = "next")

\* of three requests of one client with burst 2, two called the handler
\* and the third got the 429 response
C15_Witness ==
    /\ limEnabled /\ limBurst = 2
    /\ Len(limPc) >= 3
    /\ \A q \in 1..3 : limKey[q] = "a" /\ allowAt[q] = 0
    /\ served[1] = 1 /\ served[2] = 1 /\ served[3] = 0 /\ limOut[3] = "429"

\* the step in which a request enters whose address has no host:port form
BadKeyStep == Len(limPc') = Len(limPc) + 1 /\ limKey'[Len(limPc')] = "bad"

\* C16: with the limiter enabled, a request whose client key cannot be
\* derived gets the 500 response, not the 429; it makes and touches no
\* client, takes no token and no mutex, and does not call the next handler.
C16_BadKeyIsServerError ==
    /\ [][(limEnabled /\ BadKeyStep) =>
            /\ limOut'[Len(limPc')] = "500"
            /\ clients' = clients /\ mu' = mu]_vars
    /\ [](limEnabled => \A q \in Entered : limKey[q] = "bad" =>
            /\ limOut[q] = "500" /\ served[q] = 0
            /\ allowAt[q] = -1 /\ seenAt[q] = -1)

\* a request without a key was answered 500 while a client's bucket was in use
C16_Witness ==
    /\ limEnabled
    /\ \E q \in Entered : limKey[q] = "bad" /\ limOut[q] = "500"
    /\ \E k \in Keys : clients[k].present /\ clients[k].tokens2 < Capacity

\* C17: a check on one key is not blocked by an operation in progress on
\* another key's bucket: whenever the only check in progress is for another
\* key, mu.Lock() succeeds.
C17_OtherKeyNotBlocked ==
    \A k \in Keys :
        (swPc # "locked" /\ \A q \in InCheck : limKey[q] # k) => MuFree

\* ---- the lifecycle: panics, shutdown states, signals

\* the step in which the deferred functions of task r end a panic
RecoverStep(r) == taskPc[r] = "panicking" /\ taskPc'[r] = "done"

\* C18: a panic in a spawned function is caught and logged by the task's
\* goroutine: the process exits only by main's return; the step that ends
\* the panic logs it, counts the task down and changes nothing of the
\* handlers, of the other tasks or of the shutdown; the panic itself leaves
\* the handler's variables alone.
C18_PanicCaughtAtTask ==
    /\ [][exitCode' # exitCode => mainPc = "serveReturned"]_vars
    /\ [][\A r \in Requests : RecoverStep(r) =>
            /\ tLogged'[r] = "panic"
            /\ wg' = wg - 1
            /\ UNCHANGED <<mainPc, serveErr, exitCode, sigPc, listenerOpen, shutdownRet,
                           reqPc, errVar, resp, hLogged>>
            /\ \A q \in Requests \ {r} :
                  taskPc'[q] = taskPc[q] /\ tLogged'[q] = tLogged[q]]_vars
    /\ [][\A r \in Requests : (taskPc[r] = "spawned" /\ taskPc'[r] = "panicking") =>
            UNCHANGED <<exitCode, wg, reqPc, errVar, resp, hLogged>>]_vars
    /\ [](\A r \in Requests : tLogged[r] = "panic" => taskPc[r] = "done")

\* a task panicked after its request was answered 202, the panic was
\* logged, and Wait() has returned since
C18_Witness ==
    /\ sigPc = "sendNil" /\ wg = 0
    /\ \E r \in Requests :
         /\ tLogged[r] = "panic" /\ taskPc[r] = "done"
         /\ reqPc[r] = "done" /\ resp[r] = <<"202">>

\* the order of the shutdown states
StateRank(st) ==
    CASE st = "Running" -> 0
      [] st = "Draining" -> 1
      [] st = "WaitingBackground" -> 2
      [] st = "Stopped" -> 3

\* C19: the shutdown state is Running at the start and no step takes it to
\* an earlier state of Running, Draining, WaitingBackground, Stopped.
C19_StateOnlyForward ==
    /\ ShutdownState = "Running"
    /\ [][StateRank(ShutdownState') >= StateRank(ShutdownState)]_vars

\* the process has exited with status 0, having drained and waited
C19_Witness ==
    /\ ShutdownState = "Stopped"
    /\ exitCode = 0 /\ abandoned = 0

\* the order of the signal goroutine's positions
SigRank(pc) ==
    CASE pc = "waitSignal" -> 0
      [] pc = "draining" -> 1
      [] pc = "sendErr" -> 2
      [] pc = "wgWait" -> 3
      [] pc = "sendNil" -> 4
      [] pc = "end" -> 5
      [] pc = "killed" -> 6

\* C20: the signal goroutine goes through its positions once and in order,
\* so the drain, the closing of the listeners and the Wait() start once;
\* a signal that arrives after the shutdown has started only fills the
\* quit channel's buffer, and the listeners stay closed.
C20_ShutdownStartsOnce ==
    /\ [][SigRank(sigPc') >= SigRank(sigPc)]_vars
    /\ [][(InShutdown /\ quit = 0 /\ quit' = 1) =>
            UNCHANGED <<mainPc, serveErr, exitCode, abandoned, sigPc, listenerOpen, lnerr,
                        shutdownRet, wg, reqPc, errVar, resp, taskPc, hLogged, tLogged>>]_vars
    /\ [](InShutdown => ~listenerOpen)

\* a second signal arrived while Shutdown was waiting for a connection
C20_Witness ==
    /\ sigPc = "draining" /\ quit = 1
    /\ ActiveRequests # {}


\* C21: once a signal has arrived, and with every goroutine scheduled (so
\* that every spawned task completes), the shutdown reaches Stopped, after
\* a drain that finished and after one that timed out.
C21_ShutdownReachesStopped == (quit = 1) ~> (ShutdownState = "Stopped")

\* serve() has returned after a drain timeout, a task having completed
C21_Witness ==
    /\ mainPc = "serveReturned" /\ serveErr = "deadline"
    /\ \E r \in Requests : taskPc[r] = "done"


\* C22: with the limiter disabled every request is passed to the next
\* handler, and no request takes the mutex, looks up or makes a client,
\* sets a lastSeen or calls Allow().
C22_DisabledTouchesNothing ==
    ~limEnabled =>
        /\ \A k \in Keys : clients[k] = NoClient
        /\ mu \in {0, Sweeper}
        /\ \A q \in Entered :
              /\ limOut[q] = "next" /\ served[q] = 1
              /\ seenAt[q] = -1 /\ allowAt[q] = -1

\* the disabled limiter has passed on a request of a client and one whose
\* address cannot be split, and the cleanup goroutine has run
C22_Witness ==
    /\ ~limEnabled /\ Len(limPc) >= 2 /\ now >= SleepInterval
    /\ limKey[1] = "a" /\ limKey[2] = "bad"
    /\ served[1] = 1 /\ served[2] = 1
    /\ swPc = "locked"

\* C25: a request holds the mutex exactly from its Lock() to its Allow():
\* not while the next handler runs, not after the 429 or the 500, so that
\* the requests being served never keep a check or the sweep from the lock.
C25_MutexFreeWhileServing ==
    /\ \A q \in Entered : mu = q <=> q \in InCheck
    /\ mu \in {0, Sweeper} \cup Entered
    /\ mu = Sweeper <=> swPc = "locked"

\* an admitted request is being served, a denied one has been answered,
\* and a third request holds the mutex
C25_Witness ==
    /\ Len(limPc) >= 3
    /\ \E q1, q2, q3 \in Entered :
         /\ limPc[q1] = "serving" /\ served[q1] = 1
         /\ limOut[q2] = "429"
         /\ mu = q3

\* the requests of key k admitted at a time from t1 to t2
AdmittedIn(k, t1, t2) ==
    {q \in Entered : limKey[q] = k /\ Admitted(q) /\ t1 <= allowAt[q] /\ allowAt[q] <= t2}

\* the checks of key k read the clock once: none was suspended between
\* its lastSeen = time.Now() and its Allow()
Unsuspended(k) ==
    \A q \in Entered : (limKey[q] = k /\ allowAt[q] # -1) => seenAt[q] = allowAt[q]

\* C28: with the limiter enabled, for each key the requests admitted in a
\* window of time (it is enough to take windows that start and end at an
\* admission) number at most the burst plus the refill rate times the
\* window's length, also when the sweep evicted the key's client in the
\* window.
C28_RateBoundAcrossEviction ==
    \A k \in Keys : (limEnabled /\ Unsuspended(k)) =>
        \A q1, q2 \in Entered :
            (limKey[q1] = k /\ limKey[q2] = k /\ Admitted(q1) /\ Admitted(q2)
                /\ allowAt[q1] <= allowAt[q2]) =>
            TokenUnit * Cardinality(AdmittedIn(k, allowAt[q1], allowAt[q2]))
                <= Capacity + limRps2 * (allowAt[q2] - allowAt[q1])

\* C23: a request that finds no record at the read is answered 404 and
\* writes nothing; one whose record existed at the read, whose body can be
\* read and is valid and whose queries the database answers, is answered 200,
\* or 409 when the row was updated or deleted in between, and the 409 comes
\* with nothing written.
C23_NotFoundOrConflict ==
    /\ [][(ReadStep /\ movie.state # "present" /\ wLogged'[Len(wPc')] # "dbErr")
            => /\ wStatus'[Len(wPc')] = "404" /\ wPc'[Len(wPc')] = "done"
               /\ movie' = movie]_vars
    /\ [](\A w \in Arrived :
            (wPc[w] = "done" /\ FoundAtRead(w) /\ wStatus[w] \notin {"400", "422"})
               => wStatus[w] \in {"200", "409"})
    /\ [][\A w \in Arrived : (wStatus[w] = "none" /\ wStatus'[w] = "409") => movie' = movie]_vars

\* C24: Get(id) returns the row's version and fields, without error, when
\* the row with that id exists, and ErrRecordNotFound exactly when id < 1 or
\* no row has that id.
C24_GetReturnsStoredRecord ==
    \A id \in {0, 1, 2} :
        LET exists == id = 1 /\ movie.state = "present"
        IN  /\ Get(id).err = "ErrRecordNotFound" <=> (id < 1 \/ ~exists)
            /\ exists => /\ Get(id).err = "nil"
                         /\ Get(id).movie = [version |-> movie.version, title |-> movie.title,
                                             year |-> movie.year]

\* C29: a call of UserModel.Update that the database answers, with the id of
\* the row and the row's stored version, succeeds (unless the email is
\* taken), adds 1 to the stored version and writes the new version into
\* user.Version; any other call returns ErrEditConflict and changes nothing.
C29_UserUpdateIfVersion ==
    [][(Len(uArg') = Len(uArg) + 1 /\ uErr'[Len(uArg')] # "dbErr") =>
         IF user.state = "present" /\ uArg'[Len(uArg')].id = 1
               /\ uArg'[Len(uArg')].version = user.version
         THEN \/ uErr'[Len(uArg')] = "ErrDuplicateEmail" /\ user' = user
              \/ /\ uErr'[Len(uArg')] = "nil"
                 /\ user'.version = user.version + 1
                 /\ uNew'[Len(uArg')] = user'.version
         ELSE uErr'[Len(uArg')] = "ErrEditConflict" /\ user' = user]_vars

\* C30: a request with no fields (or null ones) whose record existed at the
\* read, whose body the server could read and whose queries the database
\* answered, and that met no conflict, is answered 200 with the version it
\* read plus 1.
C30_NoFieldsStillBumpsVersion ==
    \A w \in Arrived :
        (/\ wPc[w] = "done" /\ wInput[w] = NoInput /\ FoundAtRead(w)
         /\ wStatus[w] \notin {"400", "409"})
        => /\ wStatus[w] = "200"
           /\ wSnap[w].version >= 1 /\ wNew[w] = wSnap[w].version + 1

\* ---- C26 ---------------------------------------------------------------

\* The signal goroutine stands at one of its sends on shutdownError.
AtSend == sigPc \in {"sendErr", "sendNil"}

\* serve() is at, or still on its way to, its receive from shutdownError.
WillReceive == mainPc \in {"starting", "listening", "recv"}

\* C26: during one shutdown the signal goroutine sends exactly one value on
\* shutdownError and serve() receives it, so that no goroutine stays blocked
\* on the channel: the goroutine comes to its send of nil only when it has
\* not sent Shutdown's error before, and whenever it stands at a send while
\* serve() got past ListenAndServe, serve() has not yet taken its one value.
C26_OneSendOneReceive ==
    /\ sigPc = "sendNil" => shutdownRet = "nil"
    /\ (AtSend /\ serveErr # "bindErr") => WillReceive
    /\ (mainPc = "recv" /\ InShutdown) => sigPc \in {"draining", "sendErr", "wgWait", "sendNil"}

====
